---------------------------- MODULE Spec2Model ----------------------------
(***************************************************************************)
(* Model of examples/find-jobs-by-skill.py: a command-line client of the   *)
(* Job Posting Aggregator API.  One run of the script (or one call of      *)
(* find_jobs_by_skills from an importing caller) is a behaviour.           *)
(*                                                                         *)
(* Text is modelled as a sequence of tokens (a token is a one-character    *)
(* string, or the decimal text of an integer); a printed line is the       *)
(* f-string's template together with the texts interpolated into it.       *)
(* Emoji of the templates are written as ASCII names in brackets.          *)
(***************************************************************************)
EXTENDS Integers, Sequences, FiniteSets, TLC

VARIABLES pc,          \* position of the run
          caller,      \* "script" (python find-jobs-by-skill.py ...) or "import"
          argv,        \* sys.argv[1:]
          call,        \* arguments of the running find_jobs_by_skills call
          requests,    \* HTTP requests issued so far, in order
          response,    \* outcome of the last HTTP request
          catalog,     \* value get_available_skills() returned
          stdout,      \* lines printed so far
          exception,   \* exception propagating out of the running function
          exitStatus   \* <<>> while running, <<code>> once the process ended

vars == <<pc, caller, argv, call, requests, response, catalog, stdout,
          exception, exitStatus>>

---------------------------------------------------------------------------
(* Bounds of the model *)

MaxArgs == 2          \* skill arguments on the command line
MaxLimit == 2         \* explicit limit of an importing caller
MaxJobs == 2          \* job records in a response
MaxJobSkills == 6     \* skills of a job record
MaxCount == 1         \* count reported by the service
MaxCatalog == 21      \* entries of the skill catalog

(* Program constants *)

DefaultLimit == 10    \* def find_jobs_by_skills(skills, limit=10)
DriverLimit == 20     \* limit = 20 in main
SkillsShown == 5      \* job['skills'][:5]
CatalogShown == 20    \* skills[:20]
RuleWidth == 60       \* "=" * 60, "-" * 60
BannerWidth == 50     \* "=" * 50

---------------------------------------------------------------------------
(* Text helpers *)

Str(n) == <<ToString(n)>>

Min(a, b) == IF a < b THEN a ELSE b

RECURSIVE JoinTrailing(_, _)
JoinTrailing(seq, sep) ==
    IF Len(seq) = 0 THEN <<>>
    ELSE seq[1] \o sep \o JoinTrailing(Tail(seq), sep)

RECURSIVE Join(_, _)
\* sep.join(seq)
Join(seq, sep) ==
    IF Len(seq) = 0 THEN <<>>
    ELSE IF Len(seq) = 1 THEN seq[1]
    ELSE seq[1] \o sep \o Join(Tail(seq), sep)

Comma == <<",">>
CommaSpace == <<",", " ">>

Line(fmt, args) == [fmt |-> fmt, args |-> args]

\* ch * n
Rule(ch, n) == Line("{}", <<[i \in 1..n |-> ch]>>)

Has(dict, key) == key \in DOMAIN dict

Restrict(dict, keys) == [k \in keys |-> dict[k]]

---------------------------------------------------------------------------
(* Inputs: command lines, responses of the service *)

\* skill tokens a user may type; the second one contains the delimiter
SkillArgs == { <<"P", "y">>, <<"C", ",", "D">> }

RECURSIVE SeqsUpTo(_, _)
SeqsUpTo(S, n) ==
    IF n = 0 THEN { <<>> }
    ELSE LET shorter == SeqsUpTo(S, n - 1)
         IN  shorter \cup { Append(s, x) : s \in { t \in shorter : Len(t) = n - 1 }, x \in S }

ArgLists == SeqsUpTo(SkillArgs, MaxArgs)

JobFieldOrder == <<"title", "company", "location", "url", "skills", "postedDate", "source">>
JobFields == { JobFieldOrder[i] : i \in 1..Len(JobFieldOrder) }

SkillName(i) == <<"s", ToString(i)>>

\* a well-formed job record with n skills; n also tells the records apart
Job(n) ==
    [ title      |-> <<"t", ToString(n)>>,
      company    |-> <<"c", ToString(n)>>,
      location   |-> <<"l", ToString(n)>>,
      url        |-> <<"u", ToString(n)>>,
      skills     |-> [i \in 1..n |-> SkillName(i)],
      postedDate |-> <<"d", ToString(n)>>,
      source     |-> <<"o", ToString(n)>> ]

JobSkillLens == {0, 1} \cup ((SkillsShown - 1) .. MaxJobSkills)

WellFormedJobs == { Job(n) : n \in JobSkillLens }

\* a record of the response that lacks one field
MalformedJobs == { Restrict(Job(1), JobFields \ {f}) : f \in JobFields }

JobLists ==
    SeqsUpTo(WellFormedJobs, MaxJobs)
      \cup { <<b>> : b \in MalformedJobs }
      \cup { <<Job(0), b>> : b \in MalformedJobs }

ErrorText == <<"b", "a", "d">>

SearchKeys == {"success", "count", "jobs", "error"}

\* the key sets a decoded body may carry
SearchShapes ==
    { SearchKeys, {"success", "count", "jobs"}, {"success", "error"} }
      \cup { SearchKeys \ {k} : k \in SearchKeys }

SearchBodies ==
    { Restrict([success |-> s, count |-> c, jobs |-> j, error |-> ErrorText], keys) :
        s \in BOOLEAN, c \in 0..MaxCount, j \in JobLists, keys \in SearchShapes }

\* what requests.get / raise_for_status / response.json() raise; all of them
\* derive from requests.exceptions.RequestException (response.json() raises
\* requests.exceptions.JSONDecodeError for a body that is not JSON)
TransportFailures == {"ConnectionError", "Timeout", "HTTPError"}
DecodeFailures == {"JSONDecodeError"}

RequestExceptions == TransportFailures \cup DecodeFailures

EmptyBody == [none |-> TRUE]

Failure(kind) == [kind |-> kind, err |-> <<"e", ":">> \o <<kind>>, body |-> EmptyBody]
Decoded(body) == [kind |-> "JSON", err |-> <<>>, body |-> body]

SearchOutcomes ==
    { Failure(k) : k \in TransportFailures \cup DecodeFailures }
      \cup { Decoded(b) : b \in SearchBodies }

CatalogOf(n) == [i \in 1..n |-> SkillName(i)]

CatalogKeys == {"success", "skills"}

CatalogBodies ==
    { Restrict([success |-> s, skills |-> CatalogOf(n)], keys) :
        s \in BOOLEAN, n \in 0..MaxCatalog,
        keys \in { CatalogKeys, {"success"}, {"skills"} } }

CatalogOutcomes ==
    { Failure(k) : k \in TransportFailures \cup DecodeFailures }
      \cup { Decoded(b) : b \in CatalogBodies }

NoResponse == [kind |-> "none", err |-> <<>>, body |-> EmptyBody]

---------------------------------------------------------------------------
(* find_jobs_by_skills *)

API_BASE == "http://localhost:3000/api"

NoException == "none"

Printed(lines) == [lines |-> lines, exc |-> NoException]
Raised(lines, exc) == [lines |-> lines, exc |-> exc]

EffectiveLimitIgnoringDefault(c) ==
    IF Has(c, "limit") THEN c.limit ELSE DriverLimit

\* the limit parameter of a call: the argument, or the default of the signature
EffectiveLimit(c) ==
    IF Has(c, "limit") THEN c.limit ELSE DefaultLimit

BuildUrlTrailingDelimiter(skills) ==
    <<API_BASE, "/jobs/skills/">> \o JoinTrailing(skills, Comma)

\* skills_str = ",".join(skills); url = f"{API_BASE}/jobs/skills/{skills_str}"
BuildUrl(skills) ==
    <<API_BASE, "/jobs/skills/">> \o Join(skills, Comma)

\* requests.get(url, params={"limit": limit})
SearchRequest(c) ==
    [ method |-> "GET",
      url    |-> BuildUrl(c.skills),
      params |-> { <<"limit", EffectiveLimit(c)>> } ]

SkillsLineOffByOne(jobSkills) ==
    Line("[tools]  Skills: {}{}",
         << Join(SubSeq(jobSkills, 1, Min(SkillsShown, Len(jobSkills))), CommaSpace),
            IF Len(jobSkills) >= SkillsShown THEN <<".", ".", ".">> ELSE <<>> >>)

\* f"Skills: {', '.join(job['skills'][:5])}{'...' if len(job['skills']) > 5 else ''}"
SkillsLine(jobSkills) ==
    Line("[tools]  Skills: {}{}",
         << Join(SubSeq(jobSkills, 1, Min(SkillsShown, Len(jobSkills))), CommaSpace),
            IF Len(jobSkills) > SkillsShown THEN <<".", ".", ".">> ELSE <<>> >>)

JobFmt(f) ==
    CASE f = "title"      -> "[clipboard] {}"
      [] f = "company"    -> "[office] Company: {}"
      [] f = "location"   -> "[pin] Location: {}"
      [] f = "url"        -> "[link] URL: {}"
      [] f = "postedDate" -> "[calendar] Posted: {}"
      [] f = "source"     -> "[globe] Source: {}"

\* the print statement of one field of a job record
JobLine(job, f) ==
    IF f = "skills" THEN SkillsLine(job.skills) ELSE Line(JobFmt(f), <<job[f]>>)

\* position in JobFieldOrder of the first field the record lacks
FirstMissing(job) ==
    LET missing == { i \in 1..Len(JobFieldOrder) : ~Has(job, JobFieldOrder[i]) }
    IN  IF missing = {} THEN Len(JobFieldOrder) + 1
        ELSE CHOOSE i \in missing : \A j \in missing : i <= j

\* body of the for loop: seven prints and the separator; a missing field
\* raises KeyError at its print
RenderJob(job) ==
    LET m == FirstMissing(job)
        printed == [i \in 1..(m - 1) |-> JobLine(job, JobFieldOrder[i])]
    IN  IF m > Len(JobFieldOrder)
        THEN Printed(Append(printed, Rule("-", RuleWidth)))
        ELSE Raised(printed, "KeyError")

RECURSIVE RenderJobs(_)
\* for job in data["jobs"]: ...
RenderJobs(jobs) ==
    IF Len(jobs) = 0 THEN Printed(<<>>)
    ELSE LET first == RenderJob(jobs[1])
         IN  IF first.exc # NoException THEN first
             ELSE LET rest == RenderJobs(Tail(jobs))
                  IN  Raised(first.lines \o rest.lines, rest.exc)

HeaderFmt == "[dart] Found {} jobs matching skills: {}"

HeaderLineCountingRecords(data, skills) ==
    Line(HeaderFmt, << Str(Len(data.jobs)), Join(skills, CommaSpace) >>)

\* f"Found {data['count']} jobs matching skills: {', '.join(skills)}"
HeaderLine(data, skills) ==
    Line(HeaderFmt, << Str(data.count), Join(skills, CommaSpace) >>)

\* the branch of data["success"] being true
RenderSuccess(data, skills) ==
    IF ~Has(data, "count") THEN Raised(<<>>, "KeyError")
    ELSE LET head == << HeaderLine(data, skills), Rule("=", RuleWidth) >>
         IN  IF ~Has(data, "jobs") THEN Raised(head, "KeyError")
             ELSE LET blocks == RenderJobs(data.jobs)
                  IN  Raised(head \o blocks.lines, blocks.exc)

ErrorFmt == "[x] Error: {}"

RenderFailureWithHeader(data, skills) ==
    IF ~Has(data, "error") THEN Raised(<<>>, "KeyError")
    ELSE Printed(<< Line(HeaderFmt, << Str(0), Join(skills, CommaSpace) >>),
                    Line(ErrorFmt, <<data.error>>) >>)

\* the else branch: print(f"Error: {data['error']}")
RenderFailure(data, skills) ==
    IF ~Has(data, "error") THEN Raised(<<>>, "KeyError")
    ELSE Printed(<< Line(ErrorFmt, <<data.error>>) >>)

\* if data["success"]: ... else: ...
RenderData(data, skills) ==
    IF ~Has(data, "success") THEN Raised(<<>>, "KeyError")
    ELSE IF data.success THEN RenderSuccess(data, skills)
    ELSE RenderFailure(data, skills)

\* the try block and its two except clauses, for one outcome of the request
HandleSearch(skills, outcome) ==
    IF outcome.kind = "ConnectionError"
    THEN Printed(<< Line("[x] Could not connect to the API server.", <<>>),
                    Line("Make sure the server is running: npm start", <<>>) >>)
    ELSE IF outcome.kind \in RequestExceptions
    THEN Printed(<< Line("[x] Request failed: {}", <<outcome.err>>) >>)
    ELSE RenderData(outcome.body, skills)

---------------------------------------------------------------------------
(* get_available_skills and the guidance display of main *)

PyList(items) == [type |-> "list", items |-> items]
PyNone == [type |-> "NoneType", items |-> <<>>]

\* truth value of a list or of None
Truthy(v) == v.type = "list" /\ Len(v.items) > 0

Returned(value) == [ret |-> value, exc |-> NoException]

GetAvailableSkillsNarrowExcept(outcome) ==
    IF outcome.kind \in RequestExceptions THEN Returned(PyList(<<>>))
    ELSE IF outcome.kind # "JSON" THEN [ret |-> PyNone, exc |-> outcome.kind]
    ELSE IF ~Has(outcome.body, "success") THEN [ret |-> PyNone, exc |-> "KeyError"]
    ELSE IF ~outcome.body.success THEN Returned(PyNone)
    ELSE IF ~Has(outcome.body, "skills") THEN [ret |-> PyNone, exc |-> "KeyError"]
    ELSE Returned(PyList(outcome.body.skills))

\* the try block, the bare except and the implicit return None
GetAvailableSkills(outcome) ==
    IF outcome.kind # "JSON" THEN Returned(PyList(<<>>))
    ELSE IF ~Has(outcome.body, "success") THEN Returned(PyList(<<>>))
    ELSE IF ~outcome.body.success THEN Returned(PyNone)
    ELSE IF ~Has(outcome.body, "skills") THEN Returned(PyList(<<>>))
    ELSE Returned(PyList(outcome.body.skills))

\* requests.get(f"{API_BASE}/skills")
CatalogRequest == [method |-> "GET", url |-> <<API_BASE, "/skills">>, params |-> {}]

\* {i:2d}
Fmt2d(i) == IF i < 10 THEN <<" ", ToString(i)>> ELSE <<ToString(i)>>

EntryFmt == "  {}. {}"
MoreFmt == "     ... and {} more"
NoCatalogFmt == "  (Could not fetch skills - make sure server is running)"
UsageFmt == "Usage: python find-jobs-by-skill.py <skill1> [skill2] [skill3] ..."
ExampleFmt == "\nExample: python find-jobs-by-skill.py JavaScript React Node.js"

CatalogLinesOffByOne(v) ==
    IF Truthy(v)
    THEN LET n == Len(v.items)
         IN  [i \in 1..Min(CatalogShown, n) |-> Line(EntryFmt, <<Fmt2d(i), v.items[i]>>)]
               \o (IF n >= CatalogShown
                   THEN << Line(MoreFmt, <<Str(n - CatalogShown)>>) >>
                   ELSE <<>>)
    ELSE << Line(NoCatalogFmt, <<>>) >>

\* if skills: numbered entries and the summary; else: the explanation
CatalogLines(v) ==
    IF Truthy(v)
    THEN LET n == Len(v.items)
         IN  [i \in 1..Min(CatalogShown, n) |-> Line(EntryFmt, <<Fmt2d(i), v.items[i]>>)]
               \o (IF n > CatalogShown
                   THEN << Line(MoreFmt, <<Str(n - CatalogShown)>>) >>
                   ELSE <<>>)
    ELSE << Line(NoCatalogFmt, <<>>) >>

---------------------------------------------------------------------------
(* The run *)

NoCall == [none |-> TRUE]

Init ==
    /\ pc = "start"
    /\ caller \in {"script", "import"}
    /\ argv \in ArgLists
    /\ caller = "import" => argv = <<>>
    /\ call = NoCall
    /\ requests = <<>>
    /\ response = NoResponse
    /\ catalog = PyNone
    /\ stdout = <<>>
    /\ exception = NoException
    /\ exitStatus = <<>>

\* main, len(sys.argv) < 2: the two heading lines, then get_available_skills()
MainNoArguments ==
    /\ pc = "start" /\ caller = "script"
    /\ Len(argv) + 1 < 2
    /\ stdout' = stdout \o << Line(UsageFmt, <<>>), Line("\nAvailable skills:", <<>>) >>
    /\ pc' = "get_available_skills"
    /\ UNCHANGED <<caller, argv, call, requests, response, catalog, exception, exitStatus>>

\* get_available_skills issues its GET
GetAvailableSkillsRequest ==
    /\ pc = "get_available_skills"
    /\ requests' = Append(requests, CatalogRequest)
    /\ pc' = "catalog_wait"
    /\ UNCHANGED <<caller, argv, call, response, catalog, stdout, exception, exitStatus>>

\* the GET ends one way or another; get_available_skills returns or raises
GetAvailableSkillsResponse ==
    /\ pc = "catalog_wait"
    /\ \E outcome \in CatalogOutcomes :
         LET r == GetAvailableSkills(outcome)
         IN  /\ response' = outcome
             /\ catalog' = r.ret
             /\ exception' = r.exc
             /\ pc' = IF r.exc = NoException THEN "show_catalog" ELSE "raised"
    /\ UNCHANGED <<caller, argv, call, requests, stdout, exitStatus>>

\* main prints the catalog or the explanation, the example, and sys.exit(1)
MainShowCatalog ==
    /\ pc = "show_catalog"
    /\ stdout' = stdout \o CatalogLines(catalog) \o << Line(ExampleFmt, <<>>) >>
    /\ exitStatus' = <<1>>
    /\ pc' = "exited"
    /\ UNCHANGED <<caller, argv, call, requests, response, catalog, exception>>

\* main with skill arguments: limit = 20, the banner, find_jobs_by_skills(skills, limit)
MainSearch ==
    /\ pc = "start" /\ caller = "script"
    /\ ~(Len(argv) + 1 < 2)
    /\ call' = [skills |-> argv, limit |-> DriverLimit]
    /\ stdout' = stdout \o << Line("[rocket] Job Posting Aggregator - Skills Search", <<>>),
                              Rule("=", BannerWidth) >>
    /\ pc' = "find_jobs_by_skills"
    /\ UNCHANGED <<caller, argv, requests, response, catalog, exception, exitStatus>>

\* a caller that imported the module calls find_jobs_by_skills, with or
\* without the limit argument
ImportCall ==
    /\ pc = "start" /\ caller = "import"
    /\ \E skills \in ArgLists :
         \/ call' = [skills |-> skills]
         \/ \E l \in 1..MaxLimit : call' = [skills |-> skills, limit |-> l]
    /\ pc' = "find_jobs_by_skills"
    /\ UNCHANGED <<caller, argv, requests, response, catalog, stdout, exception, exitStatus>>

\* find_jobs_by_skills builds the url and issues its GET
FindJobsBySkillsRequest ==
    /\ pc = "find_jobs_by_skills"
    /\ requests' = Append(requests, SearchRequest(call))
    /\ pc' = "search_wait"
    /\ UNCHANGED <<caller, argv, call, response, catalog, stdout, exception, exitStatus>>

AfterSearchRetrying(outcome, result) ==
    IF outcome.kind \in TransportFailures THEN "find_jobs_by_skills"
    ELSE IF result.exc = NoException THEN "returned" ELSE "raised"

\* where the run goes once the GET has ended and its outcome was handled
AfterSearch(outcome, result) ==
    IF result.exc = NoException THEN "returned" ELSE "raised"

\* the GET ends one way or another; the rest of find_jobs_by_skills runs
FindJobsBySkillsResponse ==
    /\ pc = "search_wait"
    /\ \E outcome \in SearchOutcomes :
         LET r == HandleSearch(call.skills, outcome)
         IN  /\ response' = outcome
             /\ stdout' = stdout \o r.lines
             /\ exception' = r.exc
             /\ pc' = AfterSearch(outcome, r)
    /\ UNCHANGED <<caller, argv, call, requests, catalog, exitStatus>>

\* find_jobs_by_skills returned to main, which ends: exit status 0
MainReturn ==
    /\ pc = "returned" /\ caller = "script"
    /\ exitStatus' = <<0>>
    /\ pc' = "exited"
    /\ UNCHANGED <<caller, argv, call, requests, response, catalog, stdout, exception>>

\* an exception no except clause caught leaves main: traceback, exit status 1
UnhandledException ==
    /\ pc = "raised" /\ caller = "script"
    /\ exitStatus' = <<1>>
    /\ pc' = "exited"
    /\ UNCHANGED <<caller, argv, call, requests, response, catalog, stdout, exception>>

Next ==
    \/ MainNoArguments
    \/ GetAvailableSkillsRequest
    \/ GetAvailableSkillsResponse
    \/ MainShowCatalog
    \/ MainSearch
    \/ ImportCall
    \/ FindJobsBySkillsRequest
    \/ FindJobsBySkillsResponse
    \/ MainReturn
    \/ UnhandledException

Spec == Init /\ [][Next]_vars

---------------------------------------------------------------------------
(* Vocabulary of the properties *)

\* the lines find_jobs_by_skills printed (main prints two banner lines first)
FnOut == SubSeq(stdout, IF caller = "script" THEN 3 ELSE 1, Len(stdout))

OnSearchPath == Has(call, "skills")
OnGuidancePath == caller = "script" /\ Len(argv) = 0

SearchEnded == OnSearchPath /\ pc \in {"returned", "raised", "exited"}

DecodedBody == response.kind = "JSON"

\* offset of element i of S in the text that joins S with sep
JoinOffset(S, sep, i) ==
    LET off[k \in 1..Len(S)] ==
            IF k = 1 THEN 0 ELSE off[k - 1] + Len(S[k - 1]) + Len(sep)
    IN  off[i]

\* text is the elements of S, verbatim and in order, with sep between neighbours
IsJoinOf(text, S, sep) ==
    IF Len(S) = 0 THEN text = <<>>
    ELSE /\ Len(text) = JoinOffset(S, sep, Len(S)) + Len(S[Len(S)])
         /\ \A i \in 1..Len(S) :
              SubSeq(text, JoinOffset(S, sep, i) + 1,
                     JoinOffset(S, sep, i) + Len(S[i])) = S[i]
         /\ \A i \in 1..(Len(S) - 1) :
              SubSeq(text, JoinOffset(S, sep, i) + Len(S[i]) + 1,
                     JoinOffset(S, sep, i + 1)) = sep

CountIn(text, ch) == Cardinality({ i \in 1..Len(text) : text[i] = ch })

CommasInside(S) ==
    Cardinality(UNION { { <<i, k>> : k \in { j \in 1..Len(S[i]) : S[i][j] = "," } } :
                        i \in 1..Len(S) })

RECURSIVE SplitOn(_, _)
\* the pieces of text between occurrences of sep (no piece of an empty text)
SplitOn(text, sep) ==
    IF Len(text) = 0 THEN <<>>
    ELSE LET hits == { i \in 1..(Len(text) - Len(sep) + 1) :
                         SubSeq(text, i, i + Len(sep) - 1) = sep }
         IN  IF hits = {} THEN <<text>>
             ELSE LET h == CHOOSE i \in hits : \A j \in hits : i <= j
                  IN  <<SubSeq(text, 1, h - 1)>>
                        \o SplitOn(SubSeq(text, h + Len(sep), Len(text)), sep)

WellFormedJob(job) == JobFields \subseteq DOMAIN job

\* a decoded body with success true, a count, and only complete job records
WellFormedSuccess ==
    /\ DecodedBody
    /\ {"success", "count", "jobs"} \subseteq DOMAIN response.body
    /\ response.body.success
    /\ \A i \in 1..Len(response.body.jobs) : WellFormedJob(response.body.jobs[i])

Fmts(lines) == [i \in 1..Len(lines) |-> lines[i].fmt]

---------------------------------------------------------------------------
(* Properties *)

\* C1: on the search path no outcome of the GET or of decoding its body
\* lets an exception escape find_jobs_by_skills; it ends having printed a message.
C1_NoSearchOutcomeRaises ==
    SearchEnded => (exception = NoException /\ Len(FnOut) >= 1)

\* C2: the exit status depends only on the number of skill arguments:
\* failure with none, success with one or more.
C2_ExitStatusByArgumentCount ==
    pc = "exited" => exitStatus = (IF Len(argv) = 0 THEN <<1>> ELSE <<0>>)

CatalogFetchFailed ==
    \/ response.kind \in TransportFailures \cup DecodeFailures
    \/ DecodedBody /\ ~Has(response.body, "success")
    \/ DecodedBody /\ Has(response.body, "success") /\ ~response.body.success

\* C3: on the guidance path every failure of the catalog fetch is an empty
\* catalog: nothing is raised, and the run prints the usage line, the single
\* "(Could not fetch skills ...)" line with no numbered entry, the example,
\* and exits with status 1.
C3_CatalogFailureDegrades ==
    (OnGuidancePath /\ CatalogFetchFailed) =>
        /\ exception = NoException
        /\ pc \in {"show_catalog", "exited"}
        /\ ~Truthy(catalog)
        /\ pc = "exited" =>
             /\ Fmts(stdout) = <<UsageFmt, "\nAvailable skills:", NoCatalogFmt, ExampleFmt>>
             /\ exitStatus = <<1>>

C3_Witness ==
    /\ OnGuidancePath /\ pc = "exited"
    /\ requests = <<CatalogRequest>>
    /\ DecodedBody /\ ~Has(response.body, "success")

\* C4 as stated: a call without a limit argument issues a request whose limit
\* parameter is 20, the value the driver passes.
C4_DefaultLimitIsDriverLimit ==
    (OnSearchPath /\ ~Has(call, "limit") /\ Len(requests) = 1) =>
        requests[1].params = { <<"limit", DriverLimit>> }

\* C4 amended: a call without a limit argument issues a request whose limit
\* parameter is 10; the driver always passes 20 explicitly, so a run of the
\* script requests 20.
C4_DefaultLimitIsTen ==
    (OnSearchPath /\ Len(requests) = 1) =>
        /\ ~Has(call, "limit") => requests[1].params = { <<"limit", 10>> }
        /\ caller = "script" => requests[1].params = { <<"limit", 20>> }

C4_Witness ==
    /\ caller = "import" /\ OnSearchPath /\ ~Has(call, "limit")
    /\ Len(requests) = 1 /\ pc = "returned"

\* C5: for a non-empty S the url is the base, the jobs/skills path and a
\* segment made of the elements of S verbatim, in order, with exactly
\* len(S)-1 comma delimiters between them (commas inside elements stay as
\* they are); the only query parameter is limit, equal to the limit passed.
C5_UrlJoinsSkills ==
    (OnSearchPath /\ Len(call.skills) >= 1 /\ Len(requests) >= 1) =>
        LET url == requests[1].url
            segment == SubSeq(url, 3, Len(url))
            S == call.skills
        IN  /\ url[1] = "http://localhost:3000/api" /\ url[2] = "/jobs/skills/"
            /\ IsJoinOf(segment, S, <<",">>)
            /\ CountIn(segment, ",") - CommasInside(S) = Len(S) - 1
            /\ Cardinality(requests[1].params) = 1
            /\ Has(call, "limit") => requests[1].params = { <<"limit", call.limit>> }

C5_Witness ==
    /\ OnSearchPath /\ Len(requests) = 1 /\ Has(call, "limit")
    /\ Len(call.skills) = 2 /\ CommasInside(call.skills) >= 1
    /\ call.skills[1] # call.skills[2]

\* index in FnOut of line k of the block of job record i
BlockLine(i, k) == 2 + 8 * (i - 1) + k

\* C6: the skills line of a rendered job record with skills K shows exactly
\* the first min(5, len(K)) elements of K in order, and ends with "..." if
\* and only if len(K) > 5.
C6_SkillsLineTruncates ==
    (SearchEnded /\ WellFormedSuccess) =>
        \A i \in 1..Len(response.body.jobs) :
            LET K == response.body.jobs[i].skills
                line == FnOut[BlockLine(i, 5)]
            IN  /\ BlockLine(i, 5) <= Len(FnOut)
                /\ line.fmt = "[tools]  Skills: {}{}"
                /\ SplitOn(line.args[1], <<",", " ">>)
                     = SubSeq(K, 1, IF Len(K) < 5 THEN Len(K) ELSE 5)
                /\ (line.args[2] = <<".", ".", ".">>) <=> (Len(K) > 5)
                /\ (line.args[2] = <<>>) <=> (Len(K) <= 5)

C6_Witness ==
    /\ SearchEnded /\ WellFormedSuccess
    /\ \E i \in 1..Len(response.body.jobs) :
         /\ Len(response.body.jobs[i].skills) > 5
         /\ FnOut[BlockLine(i, 5)].args[2] = <<".", ".", ".">>
    /\ \E i \in 1..Len(response.body.jobs) :
         /\ Len(response.body.jobs[i].skills) = 5
         /\ FnOut[BlockLine(i, 5)].args[2] = <<>>

CatalogFetched ==
    /\ OnGuidancePath /\ DecodedBody
    /\ CatalogKeys \subseteq DOMAIN response.body
    /\ response.body.success
    /\ Len(response.body.skills) > 0

\* C7: a fetched catalog of n > 0 entries is shown as min(n, 20) entries
\* numbered from 1 in catalog order, followed by "... and (n-20) more" if and
\* only if n > 20.
C7_CatalogDisplay ==
    (CatalogFetched /\ pc = "exited") =>
        LET entries == response.body.skills
            n == Len(entries)
            shown == IF n < 20 THEN n ELSE 20
            body == SubSeq(stdout, 3, Len(stdout) - 1)
        IN  /\ Len(body) = shown + (IF n > 20 THEN 1 ELSE 0)
            /\ \A i \in 1..shown :
                 /\ body[i].fmt = EntryFmt
                 /\ body[i].args[1][Len(body[i].args[1])] = ToString(i)
                 /\ body[i].args[2] = entries[i]
            /\ n > 20 => body[shown + 1] = Line(MoreFmt, << <<ToString(n - 20)>> >>)
            /\ n <= 20 => \A i \in 1..Len(body) : body[i].fmt # MoreFmt

C7_Witness ==
    /\ CatalogFetched /\ pc = "exited"
    /\ Len(response.body.skills) = 21
    /\ stdout[23] = Line(MoreFmt, << <<"1">> >>)
    /\ stdout[22].args[2] = response.body.skills[20]

\* C8: a response with success true and N complete job records is rendered
\* as one header line, first, with the count the service reported and the
\* requested skills, a rule, and then N blocks in the order of the records:
\* title, company, location, url, skills, posted date, source, separator.
C8_SuccessRendering ==
    (SearchEnded /\ WellFormedSuccess) =>
        LET data == response.body
            N == Len(data.jobs)
        IN  /\ exception = NoException
            /\ Len(FnOut) = 2 + 8 * N
            /\ FnOut[1].fmt = HeaderFmt
            /\ FnOut[1].args[1] = <<ToString(data.count)>>
            /\ IsJoinOf(FnOut[1].args[2], call.skills, <<",", " ">>)
            /\ Cardinality({ i \in 1..Len(FnOut) : FnOut[i].fmt = HeaderFmt }) = 1
            /\ \A i \in 1..N :
                 /\ FnOut[BlockLine(i, 1)] = Line("[clipboard] {}", <<data.jobs[i].title>>)
                 /\ FnOut[BlockLine(i, 2)] = Line("[office] Company: {}", <<data.jobs[i].company>>)
                 /\ FnOut[BlockLine(i, 3)] = Line("[pin] Location: {}", <<data.jobs[i].location>>)
                 /\ FnOut[BlockLine(i, 4)] = Line("[link] URL: {}", <<data.jobs[i].url>>)
                 /\ FnOut[BlockLine(i, 5)].fmt = "[tools]  Skills: {}{}"
                 /\ FnOut[BlockLine(i, 6)] = Line("[calendar] Posted: {}", <<data.jobs[i].postedDate>>)
                 /\ FnOut[BlockLine(i, 7)] = Line("[globe] Source: {}", <<data.jobs[i].source>>)
                 /\ FnOut[BlockLine(i, 8)].args = << [k \in 1..60 |-> "-"] >>

C8_Witness ==
    /\ SearchEnded /\ WellFormedSuccess
    /\ Len(response.body.jobs) = 2
    /\ response.body.jobs[1] # response.body.jobs[2]
    /\ response.body.count # Len(response.body.jobs)
    /\ Len(FnOut) = 18

\* C9: a response with success false is rendered as exactly one line, the
\* error line with the response's error message: no header, no job block,
\* whatever its count and jobs are.
C9_FailureRendering ==
    ( /\ SearchEnded /\ DecodedBody
      /\ {"success", "error"} \subseteq DOMAIN response.body
      /\ ~response.body.success ) =>
        /\ exception = NoException
        /\ FnOut = << Line(ErrorFmt, <<response.body.error>>) >>

C9_Witness ==
    /\ SearchEnded /\ DecodedBody
    /\ SearchKeys \subseteq DOMAIN response.body
    /\ ~response.body.success
    /\ Len(response.body.jobs) > 0 /\ response.body.count > 0
    /\ Len(FnOut) = 1

\* C10: a run issues at most one HTTP request and never repeats it: the
\* catalog GET only without skill arguments, the job search GET only with
\* them, and none once a response or a failure has been received.
C10_AtMostOneRequest ==
    /\ Len(requests) <= 1
    /\ response.kind # "none" => Len(requests) = 1
    /\ \A i \in 1..Len(requests) :
         /\ requests[i].method = "GET"
         /\ OnGuidancePath => requests[i].url = <<API_BASE, "/skills">>
         /\ (caller = "script" /\ Len(argv) >= 1) =>
              /\ requests[i].url[2] = "/jobs/skills/"
              /\ Len(requests[i].url) > 2

C10_Witness ==
    /\ pc = "exited" /\ Len(argv) >= 1
    /\ response.kind = "ConnectionError"
    /\ Len(requests) = 1
    /\ Len(stdout) = 4

=============================================================================
